---- MODULE Spec2Model ----
(***************************************************************************)
(* Model of UN_intern.py: the pagination driver (get_internship_data and   *)
(* the functions it calls), the geocode resolver, the sheet name sanitizer,*)
(* the workbook writer (save_to_excel) and main.                           *)
(***************************************************************************)
EXTENDS Integers, Sequences, FiniteSets, TLC

\* ------------------------------------------------------------------ bounds
MaxPages == 2      \* pages the listing site can serve in one run
MaxCards == 2      \* card elements on one page

\* ------------------------------------------------------- pagination driver
VARIABLES
  pc,           \* position of get_internship_data
  driver,       \* page session: "none" | "open" | "quit"
  internships,  \* the list accumulated by get_internship_data
  page_number,  \* page_number of the while loop
  jobs,         \* card elements returned by get_job_elements for this page
  idx,          \* index of the next card of the for loop
  result,       \* value returned by get_internship_data (pc = "returned")
  snapshots,    \* diagnostic artifacts written to the logs directory
  done,         \* history: phases of the protocol that have been entered
  failed,       \* history: the exception that escaped a step of each phase
  extracted,    \* history: every record extract_job_details has returned
  dropped,      \* history: the cards <<page, card>> that were dropped
  id_text,      \* text of the identifier element on the cards in this run
  page_yield,   \* history: records appended from the current page
  zero_page,    \* history: first page that yielded no record, 0 if none
  empty_page,   \* history: first page that had no card element, 0 if none
  ended         \* history: why the while loop was left

scrapeVars == <<pc, driver, internships, page_number, jobs, idx, result,
                snapshots, done, failed,
                 extracted, dropped, id_text, page_yield, zero_page,
                empty_page, ended>>

\* ----------------------------------------------------- sheet name sanitizer
VARIABLES
  existing_names,  \* the registry: the set passed to sanitize_sheet_name
  inputs,          \* history: the names passed, in call order
  returned         \* history: the names returned, in call order

sanVars == <<existing_names, inputs, returned>>

\* --------------------------------------------------------- geocode resolver
VARIABLES
  gpc,               \* position of geocode_cities
  cities,            \* the argument of geocode_cities
  future,            \* per city: state of its future and the result it holds
  work_queue,        \* the executor's queue of submitted, unstarted tasks
  city_country_dict, \* the mapping geocode_cities builds and returns
  lookup,            \* history: what geolocator.geocode did for each city
  first_done,        \* history: the city whose lookup ended first, <<>> if none;
                     \* kept only when geocode_cities is run on its own
  submits            \* history: per city, the number of executor.submit calls

geoVars == <<gpc, cities, future, work_queue, city_country_dict, lookup,
            first_done, submits>>

\* ---------------------------------------------------------- workbook writer
VARIABLES
  spc,              \* position of save_to_excel
  data,             \* the argument of save_to_excel
  applied_file,     \* content of the applied-internships workbook
  applied_job_ids,  \* the set load_applied_job_ids returned
  filtered_data,    \* the list built by the filter loop
  country_dict,     \* country -> jobs, in insertion order
  sheet_idx,        \* idx of the enumerate loop over country_dict
  workbook,         \* the openpyxl workbook being filled
  file              \* content of the destination file EXCEL_FILENAME

saveVars == <<spc, data, applied_file, applied_job_ids, filtered_data,
              country_dict, sheet_idx, workbook, file>>

vars == <<scrapeVars, sanVars, geoVars, saveVars>>

\* the value None that extract_job_details returns for a card it drops
NoDetails == [page |-> 0, card |-> 0, id |-> <<>>]

\* selenium exception classes as the handlers of the source distinguish them;
\* "Other" is any exception that is none of the three imported classes
Kinds == {"Timeout", "NoSuchElement", "ClickIntercepted", "Other"}

Phases == {"configure", "load", "consent", "pagesize", "extract", "next"}

ConfigureSteps == {"chrome", "stealth"}
LoadSteps      == {"get", "wait_body"}
AcSteps        == {"ac_wait", "ac_click"}
SrpSteps       == {"srp_label", "srp_find", "srp_click", "srp_option",
                   "srp_scroll", "srp_jsclick"}
NpSteps        == {"np_wait", "np_parent", "np_scroll", "np_click"}

PhaseOf(step) ==
  IF step \in ConfigureSteps THEN "configure"
  ELSE IF step \in LoadSteps THEN "load"
  ELSE IF step \in AcSteps THEN "consent"
  ELSE IF step \in SrpSteps \cup {"srp_close"} THEN "pagesize"
  ELSE IF step \in NpSteps THEN "next"
  ELSE "extract"

\* the statement that follows a step when the step returns normally
NextOf(step) ==
  CASE step = "chrome"      -> "stealth"
    [] step = "stealth"     -> "get"
    [] step = "get"         -> "wait_body"
    [] step = "wait_body"   -> "ac_wait"
    [] step = "ac_wait"     -> "ac_click"
    [] step = "ac_click"    -> "srp_label"
    [] step = "srp_label"   -> "srp_find"
    [] step = "srp_find"    -> "srp_click"
    [] step = "srp_click"   -> "srp_option"
    [] step = "srp_option"  -> "srp_scroll"
    [] step = "srp_scroll"  -> "srp_close"
    [] step = "srp_close"   -> "srp_jsclick"
    [] step = "srp_jsclick" -> "page_init"
    [] step = "np_wait"     -> "np_parent"
    [] step = "np_scroll"   -> "np_click"
    [] step = "np_click"    -> "get_jobs"

\* except clauses of the three interaction functions
AcceptCookiesCaught == {"Timeout", "NoSuchElement"}

SrpCaught_NoIntercept == {"Timeout", "NoSuchElement"}

SrpCaught == {"Timeout", "NoSuchElement", "ClickIntercepted"}

NextCaught == {"Timeout", "NoSuchElement", "ClickIntercepted"}

\* HandlerOf with the page load wrapped in a handler of its own that goes on
HandlerOf_LoadSwallowed(step, kind) ==
  IF step \in ConfigureSteps THEN "raised"
  ELSE IF step \in LoadSteps THEN "ac_wait"
  ELSE IF step \in AcSteps /\ kind \in AcceptCookiesCaught THEN "srp_label"
  ELSE IF step \in SrpSteps /\ kind \in SrpCaught THEN "srp_screenshot"
  ELSE IF step \in NpSteps /\ kind \in NextCaught THEN "np_screenshot"
  ELSE "except"

\* where control goes when `step` raises an exception of class `kind`
HandlerOf(step, kind) ==
  IF step \in ConfigureSteps THEN "raised"
  ELSE IF step \in AcSteps /\ kind \in AcceptCookiesCaught THEN "srp_label"
  ELSE IF step \in SrpSteps /\ kind \in SrpCaught THEN "srp_screenshot"
  ELSE IF step \in NpSteps /\ kind \in NextCaught THEN "np_screenshot"
  ELSE "except"

ClickNextFailureResult_True == TRUE

\* value click_next_page returns from its except clause
ClickNextFailureResult == FALSE

IsEmptyPage_never(js) == FALSE

\* the test of `if not jobs`
IsEmptyPage(js) == Len(js) = 0

\* the test of `if details`: extract_job_details returns a dict or None
IsTruthy(details) == details # NoDetails

ReturnValue_Fresh(list) == <<>>

\* the value of the return statement of get_internship_data
ReturnValue(list) == list

\* text of the identifier element of a card: with a value after the separator,
\* and without one
IdFragments ==
  { <<"J", "o", "b", " ", "I", "D", " ", ":", " ", "1", "2", "3", "4", "5">>,
    <<"J", "o", "b", " ", "I", "D", " ", ":", " ">> }

\* the registry before save_to_excel has created it
IdleSan ==
  /\ existing_names = {}
  /\ inputs = <<>>
  /\ returned = <<>>

\* the sentinel country
Unknown == <<"U", "n", "k", "n", "o", "w", "n">>

\* no result held by a future
NoResult == [raised |-> FALSE, city |-> <<>>, country |-> <<>>]

\* what geolocator.geocode has not yet been asked
NoLookup == [kind |-> "none", address |-> <<>>]

\* the destination file as an earlier run left it
PriorFile == <<[title |-> <<"O", "l", "d">>, rows |-> <<>>]>>

\* save_to_excel has not been called
IdleSave ==
  /\ spc = "idle"
  /\ data = <<>>
  /\ applied_file = [kind |-> "missing", ids |-> {}]
  /\ applied_job_ids = {}
  /\ filtered_data = <<>>
  /\ country_dict = <<>>
  /\ sheet_idx = 0
  /\ workbook = <<>>
  /\ file = PriorFile

\* geocode_cities has not been called
IdleGeo ==
  /\ gpc = "idle"
  /\ cities = {}
  /\ future = <<>>
  /\ work_queue = <<>>
  /\ city_country_dict = <<>>
  /\ lookup = <<>>
  /\ first_done = <<>>
  /\ submits = <<>>

\* get_internship_data has not been called
IdleScrape ==
  /\ pc = "idle"
  /\ driver = "none"
  /\ internships = <<>>
  /\ page_number = 0
  /\ jobs = <<>>
  /\ idx = 0
  /\ result = <<>>
  /\ snapshots = {}
  /\ done = {}
  /\ failed = [p \in Phases |-> "none"]
  /\ extracted = <<>>
  /\ dropped = {}
  /\ id_text = <<>>
  /\ page_yield = 0
  /\ zero_page = 0
  /\ empty_page = 0
  /\ ended = "no"

InitScrape ==
  /\ pc = "chrome"
  /\ driver = "none"
  /\ internships = <<>>
  /\ page_number = 0
  /\ jobs = <<>>
  /\ idx = 0
  /\ result = <<>>
  /\ snapshots = {}
  /\ done = {}
  /\ failed = [p \in Phases |-> "none"]
  /\ extracted = <<>>
  /\ dropped = {}
  /\ id_text \in IdFragments
  /\ page_yield = 0
  /\ zero_page = 0
  /\ empty_page = 0
  /\ ended = "no"
  /\ IdleSan
  /\ IdleGeo
  /\ IdleSave

\* a step returns normally
Proceed(step) ==
  /\ pc' = NextOf(step)
  /\ done' = done \cup {PhaseOf(step)}
  /\ UNCHANGED failed

\* a step raises `kind`; control moves to the innermost matching handler
Raise(step, kind) ==
  /\ pc' = HandlerOf(step, kind)
  /\ done' = done \cup {PhaseOf(step)}
  /\ failed' = [failed EXCEPT ![PhaseOf(step)] = kind]

\* configure_driver, called outside the try block
configure_driver ==
  /\ pc \in ConfigureSteps
  /\ \/ /\ Proceed(pc)
        /\ driver' = "open"
     \/ /\ \E k \in {"Other"} : Raise(pc, k)
        /\ UNCHANGED driver
  /\ UNCHANGED <<internships, page_number, jobs, idx, result, snapshots,

                 extracted, dropped, id_text, page_yield, zero_page, empty_page, ended>>

\* driver.get(BASE_URL) and the wait for the body element
load_page ==
  /\ pc \in LoadSteps
  /\ \/ Proceed(pc)
     \/ \E k \in {"Timeout", "Other"} : Raise(pc, k)
  /\ UNCHANGED <<driver, internships, page_number, jobs, idx, result,
                 snapshots,
                 extracted, dropped, id_text, page_yield, zero_page, empty_page,
                 ended>>

accept_cookies ==
  /\ pc \in AcSteps
  /\ \/ Proceed(pc)
     \/ \E k \in (IF pc = "ac_wait" THEN {"Timeout", "NoSuchElement", "Other"}
                                   ELSE {"ClickIntercepted", "Other"}) :
          Raise(pc, k)
  /\ UNCHANGED <<driver, internships, page_number, jobs, idx, result,
                 snapshots,
                 extracted, dropped, id_text, page_yield, zero_page, empty_page,
                 ended>>

\* close_floating_elements catches every exception itself
close_floating_elements ==
  /\ pc = "srp_close"
  /\ Proceed(pc)
  /\ UNCHANGED <<driver, internships, page_number, jobs, idx, result,
                 snapshots,
                 extracted, dropped, id_text, page_yield, zero_page, empty_page,
                 ended>>

set_records_per_page ==
  /\ \/ /\ pc \in SrpSteps
        /\ \/ Proceed(pc)
           \/ \E k \in Kinds : Raise(pc, k)
        /\ UNCHANGED snapshots
     \/ /\ pc = "srp_screenshot"
        /\ snapshots' = snapshots \cup {"set_records_per_page_error"}
        /\ pc' = "page_init"
        /\ UNCHANGED <<done, failed>>
  /\ UNCHANGED <<driver, internships, page_number, jobs, idx, result,

                 extracted, dropped, id_text, page_yield, zero_page, empty_page, ended>>

\* page_number = 1, then the while loop
begin_pagination ==
  /\ pc = "page_init"
  /\ page_number' = 1
  /\ pc' = "get_jobs"
  /\ UNCHANGED <<driver, internships, jobs, idx, result, snapshots, done,
                 failed,
                 extracted, dropped, id_text, page_yield, zero_page, empty_page, ended>>

\* the cards the site can show on page p: nothing beyond its last page
CardsOn(p) == IF p <= MaxPages THEN 0..MaxCards ELSE {0}

\* jobs = get_job_elements(driver), then `if not jobs`
get_job_elements ==
  /\ pc = "get_jobs"
  /\ \/ \E n \in CardsOn(page_number) :
          LET js == [i \in 1..n |-> i] IN
          /\ jobs' = js
          /\ pc' = IF IsEmptyPage(js) THEN "debug_dump" ELSE "for_jobs"
          /\ empty_page' = IF n = 0 /\ empty_page = 0
                             THEN page_number ELSE empty_page
          /\ UNCHANGED failed
     \/ \* NoSuchElementException is caught inside and gives the empty list
        /\ jobs' = <<>>
        /\ pc' = IF IsEmptyPage(<<>>) THEN "debug_dump" ELSE "for_jobs"
        /\ empty_page' = IF empty_page = 0 THEN page_number ELSE empty_page
        /\ UNCHANGED failed
     \/ /\ pc' = HandlerOf("get_jobs", "Other")
        /\ failed' = [failed EXCEPT !["extract"] = "Other"]
        /\ UNCHANGED <<jobs, empty_page>>
  /\ idx' = 1
  /\ page_yield' = 0
  /\ done' = done \cup {"extract"}
  /\ UNCHANGED <<driver, internships, page_number, result, snapshots,
                 extracted, dropped, id_text, zero_page, ended>>

\* the page source is written to the logs directory, then break
save_page_source ==
  /\ pc = "debug_dump"
  /\ \/ /\ snapshots' = snapshots \cup {"page_source_page"}
        /\ ended' = "empty"
        /\ pc' = "finally"
        /\ UNCHANGED failed
     \/ /\ pc' = HandlerOf("debug_dump", "Other")
        /\ failed' = [failed EXCEPT !["extract"] = "Other"]
        /\ UNCHANGED <<snapshots, ended>>
  /\ zero_page' = IF zero_page = 0 THEN page_number ELSE zero_page
  /\ UNCHANGED <<driver, internships, page_number, jobs, idx, result, done,
                 extracted, dropped, id_text, page_yield, empty_page>>

\* characters matched by \s
Whitespace == {" ", "\t", "\n"}

RECURSIVE LStrip(_)
LStrip(s) ==
  IF s # <<>> /\ Head(s) \in Whitespace THEN LStrip(Tail(s)) ELSE s

RECURSIVE RStrip(_)
RStrip(s) ==
  IF s # <<>> /\ s[Len(s)] \in Whitespace
    THEN RStrip(SubSeq(s, 1, Len(s) - 1)) ELSE s

\* str.strip()
Strip(s) == RStrip(LStrip(s))

\* s.split(sep)[-1]
RECURSIVE LastPart(_, _)
LastPart(s, sep) ==
  IF \E i \in 1..Len(s) : s[i] = sep
    THEN LastPart(Tail(s), sep)
    ELSE s

\* job_id = job_id_element.text.strip().split(":")[-1].strip()
ParseJobId(text) == Strip(LastPart(Strip(text), ":"))

CardFailureNext_Escapes == "except"

\* where control is after a card raised inside extract_job_details: the
\* `except Exception` of that function returns None and the for loop goes on
CardFailureNext == "for_jobs"

\* `for job in jobs`: extract_job_details catches every exception and
\* returns None for that card; a truthy result is appended
extract_job_details ==
  /\ pc = "for_jobs"
  /\ \/ /\ idx <= Len(jobs)
        /\ \E details \in
               {[page |-> page_number, card |-> jobs[idx],
                 id |-> ParseJobId(id_text)], NoDetails} :
             /\ internships' = IF IsTruthy(details)
                                 THEN Append(internships, details)
                                 ELSE internships
             /\ extracted' = IF details # NoDetails
                               THEN Append(extracted, details) ELSE extracted
             /\ dropped' = IF details = NoDetails
                             THEN dropped \cup {<<page_number, jobs[idx]>>}
                             ELSE dropped
             /\ pc' = IF details = NoDetails THEN CardFailureNext ELSE pc
             /\ page_yield' = IF IsTruthy(details)
                                THEN page_yield + 1 ELSE page_yield
        /\ idx' = idx + 1
        /\ UNCHANGED zero_page
     \/ \* the list is exhausted
        /\ idx > Len(jobs)
        /\ pc' = "np_wait"
        /\ zero_page' = IF page_yield = 0 /\ zero_page = 0
                          THEN page_number ELSE zero_page
        /\ UNCHANGED <<internships, extracted, dropped, page_yield, idx>>
  /\ UNCHANGED <<driver, page_number, jobs, result, snapshots, done, failed,
                 ended, empty_page, id_text>>

\* has_next = click_next_page(driver); break unless has_next
click_next_page ==
  /\ \/ /\ pc \in {"np_wait", "np_scroll"}
        /\ \/ Proceed(pc)
           \/ \E k \in Kinds : Raise(pc, k)
        /\ UNCHANGED <<snapshots, page_number, ended>>
     \/ /\ pc = "np_parent"
        /\ \/ \* the parent li carries the class "disabled": return False
              /\ pc' = "finally"
              /\ ended' = "disabled"
              /\ done' = done \cup {"next"}
              /\ UNCHANGED failed
           \/ /\ page_number < MaxPages
              /\ pc' = "np_scroll"
              /\ done' = done \cup {"next"}
              /\ UNCHANGED <<failed, ended>>
           \/ /\ \E k \in Kinds : Raise(pc, k)
              /\ UNCHANGED ended
        /\ UNCHANGED <<snapshots, page_number>>
     \/ /\ pc = "np_click"
        /\ \/ /\ Proceed(pc)
              /\ page_number' = page_number + 1
           \/ /\ \E k \in Kinds : Raise(pc, k)
              /\ UNCHANGED page_number
        /\ UNCHANGED <<snapshots, ended>>
     \/ /\ pc = "np_screenshot"
        /\ snapshots' = snapshots \cup {"click_next_page_error"}
        /\ IF ClickNextFailureResult
             THEN /\ pc' = "get_jobs"
                  /\ page_number' = page_number + 1
                  /\ UNCHANGED ended
             ELSE /\ pc' = "finally"
                  /\ ended' = "next_failed"
                  /\ UNCHANGED page_number
        /\ UNCHANGED <<done, failed>>
  /\ UNCHANGED <<driver, internships, jobs, idx, result,
                 extracted, dropped, id_text,
                 page_yield, zero_page, empty_page>>

\* except Exception: the error is logged
outer_except ==
  /\ pc = "except"
  /\ pc' = "finally"
  /\ ended' = IF ended = "no" THEN "exception" ELSE ended
  /\ UNCHANGED <<driver, internships, page_number, jobs, idx, result,
                 snapshots, done, failed,
                 extracted, dropped, id_text, page_yield, zero_page,
                 empty_page>>

\* finally: driver.quit()
finally_quit ==
  /\ pc = "finally"
  /\ driver' = "quit"
  /\ pc' = "return"
  /\ UNCHANGED <<internships, page_number, jobs, idx, result, snapshots,
                 done, failed,
                 extracted, dropped, id_text, page_yield, zero_page, empty_page,
                 ended>>

\* return internships
return_internships ==
  /\ pc = "return"
  /\ result' = ReturnValue(internships)
  /\ pc' = "returned"
  /\ UNCHANGED <<driver, internships, page_number, jobs, idx, snapshots,
                 done, failed,
                 extracted, dropped, id_text, page_yield, zero_page, empty_page,
                 ended>>

NextScrape ==
  \/ configure_driver /\ UNCHANGED <<sanVars, geoVars, saveVars>>
  \/ load_page /\ UNCHANGED <<sanVars, geoVars, saveVars>>
  \/ accept_cookies /\ UNCHANGED <<sanVars, geoVars, saveVars>>
  \/ set_records_per_page /\ UNCHANGED <<sanVars, geoVars, saveVars>>
  \/ close_floating_elements /\ UNCHANGED <<sanVars, geoVars, saveVars>>
  \/ begin_pagination /\ UNCHANGED <<sanVars, geoVars, saveVars>>
  \/ get_job_elements /\ UNCHANGED <<sanVars, geoVars, saveVars>>
  \/ save_page_source /\ UNCHANGED <<sanVars, geoVars, saveVars>>
  \/ extract_job_details /\ UNCHANGED <<sanVars, geoVars, saveVars>>
  \/ click_next_page /\ UNCHANGED <<sanVars, geoVars, saveVars>>
  \/ outer_except /\ UNCHANGED <<sanVars, geoVars, saveVars>>
  \/ finally_quit /\ UNCHANGED <<sanVars, geoVars, saveVars>>
  \/ return_internships /\ UNCHANGED <<sanVars, geoVars, saveVars>>

SpecScrape == InitScrape /\ [][NextScrape]_vars

TypeScrape ==
  /\ driver \in {"none", "open", "quit"}
  /\ page_number \in 0..(MaxPages + 1)
  /\ \A i \in 1..Len(result) : result[i].page \in 1..MaxPages
  /\ pc # "returned" => result = <<>>

\* ------------------------------------------------ claims: pagination driver

\* positions after the while loop and the try block have been left
AfterLoop == {"except", "finally", "return", "returned"}

\* C4 as stated: once a page has yielded zero extracted records, no further
\* page is visited and the list returned is the one accumulated before it.
C4_ZeroRecordsEndPagination ==
  zero_page # 0 =>
    /\ page_number = zero_page
    /\ pc = "returned" => result = extracted

\* C4 amended: once get_job_elements has returned no card element for a
\* page, the loop is left, no further page is visited, nothing is appended
\* any more and the list returned is exactly the records extracted on the
\* prior pages.
C4_EmptyPageEndsPagination ==
  empty_page # 0 =>
    /\ page_number = empty_page
    /\ pc \in AfterLoop \cup {"debug_dump"}
    /\ internships = extracted
    /\ \A i \in 1..Len(internships) : internships[i].page < empty_page
    /\ pc = "returned" => result = extracted

C4_Witness ==
  /\ pc = "returned"
  /\ empty_page = 2
  /\ ended = "empty"
  /\ Len(result) = MaxCards

\* C6: after a timeout of the initial page load the run is aborted: no
\* consent, page-size, extraction or next-page step is ever entered and the
\* value returned is the empty list.
C6_LoadTimeoutAborts ==
  failed["load"] = "Timeout" =>
    /\ done \cap {"consent", "pagesize", "extract", "next"} = {}
    /\ pc \in AfterLoop
    /\ internships = <<>>
    /\ pc = "returned" => result = <<>>

C6_Witness ==
  /\ pc = "returned"
  /\ failed["load"] = "Timeout"
  /\ result = <<>>
  /\ driver = "quit"

\* C7 as stated: whatever exception a step of the consent dismissal raises,
\* the driver goes on to the page-size configuration.
C7_ConsentFailureNonFatal ==
  failed["consent"] # "none" => (pc = "srp_label" \/ "pagesize" \in done)

C9_NextFailureTruncates ==
  (ended \in {"disabled", "next_failed"} \/ failed["next"] # "none") =>
    /\ pc \in AfterLoop \cup {"np_screenshot"}
    /\ internships = extracted
    /\ pc = "returned" => result = extracted

C9_Witness ==
  /\ pc = "returned"
  /\ failed["next"] = "ClickIntercepted"
  /\ ended = "next_failed"
  /\ "click_next_page_error" \in snapshots
  /\ Len(result) > MaxCards

\* C10 as stated: whenever get_internship_data has been left, by return or
\* by an exception, no page session is left open, and the session is not
\* closed while a navigation or extraction step is still to come.
C10_SessionTornDownOnEveryExit ==
  /\ pc \in {"returned", "raised"} => driver # "open"
  /\ driver = "quit" => pc \in {"return", "returned"}

\* C14: every record in the list returned by get_internship_data has a
\* non-empty Job ID; a card whose identifier text has no value after its last
\* separator is dropped.
C14_ReturnedJobIdsNonEmpty ==
  pc = "returned" => \A i \in 1..Len(result) : result[i].id # <<>>

\* the card (page p, card c) has a record in the accumulated list
Kept(p, c) ==
  \E i \in 1..Len(internships) :
    internships[i].page = p /\ internships[i].card = c

\* every card handled so far is either dropped or kept, the cards handled on a
\* page are its first ones without a gap, and the kept records stand in page
\* order and, within a page, in card order
C18_CardsAccounted ==
  /\ \A i \in 1..Len(internships) :
       LET p == internships[i].page
           c == internships[i].card
       IN /\ <<p, c>> \notin dropped
          /\ p \in 1..page_number
          /\ c = 1 \/ <<p, c - 1>> \in dropped \/ Kept(p, c - 1)
  /\ \A d \in dropped :
       /\ d[1] \in 1..page_number
       /\ d[2] = 1 \/ <<d[1], d[2] - 1>> \in dropped \/ Kept(d[1], d[2] - 1)
  /\ pc = "for_jobs" =>
       \A c \in 1..Len(jobs) :
         c < idx <=> (<<page_number, c>> \in dropped \/ Kept(page_number, c))
  /\ pc \in NpSteps =>
       \A c \in 1..Len(jobs) :
         <<page_number, c>> \in dropped \/ Kept(page_number, c)
  /\ \A i \in 1..(Len(internships) - 1) :
       \/ internships[i].page < internships[i + 1].page
       \/ /\ internships[i].page = internships[i + 1].page
          /\ internships[i].card < internships[i + 1].card

\* C18: an exception raised while one card is processed drops exactly that
\* card: the other cards of the page are extracted and appended in page order,
\* the for loop goes on to the next card, and after the last card the driver
\* goes on to click_next_page.
C18_CardFailureIsolated ==
  /\ []C18_CardsAccounted
  /\ [][pc = "for_jobs" =>
          \/ pc' = "for_jobs" /\ idx' = idx + 1 /\ idx <= Len(jobs)
          \/ pc' = "np_wait" /\ idx > Len(jobs)]_vars

\* the first card of page 1 was dropped, the second kept, and page 2 was
\* visited and its first card kept
C18_Witness ==
  /\ dropped = {<<1, 1>>}
  /\ Len(internships) = 2
  /\ internships[1].page = 1 /\ internships[1].card = 2
  /\ internships[2].page = 2 /\ internships[2].card = 1
  /\ pc = "returned"
  /\ result = internships

\* C19: on every page the empty-page check comes before the next-control
\* check: click_next_page is only entered for a page that has cards, and once
\* a page was empty the "next" control is not located or clicked, on that page
\* or later.
C19_EmptyCheckBeforeNext ==
  /\ pc \in NpSteps \cup {"np_screenshot"} =>
       /\ jobs # <<>>
       /\ empty_page = 0
  /\ empty_page = 1 =>
       /\ "next" \notin done
       /\ failed["next"] = "none"
       /\ "click_next_page_error" \notin snapshots

\* page 1 had no card, where the "next" control may have been enabled, and
\* the run returned without a step of click_next_page
C19_Witness ==
  /\ pc = "returned"
  /\ empty_page = 1
  /\ page_number = 1
  /\ page_number < MaxPages
  /\ ended = "empty"
  /\ "next" \notin done

\* the kept records stand in page order and, within a page, in card order
C22_PageOrder ==
  \A i \in 1..(Len(internships) - 1) :
    \/ internships[i].page < internships[i + 1].page
    \/ /\ internships[i].page = internships[i + 1].page
       /\ internships[i].card < internships[i + 1].card

\* C22: the accumulated list only grows by appending, so every value of it is
\* a prefix of the later ones; records of an earlier page precede those of a
\* later page, in card order; and however the run ends (empty page, disabled
\* or failed next control, or an exception that reaches the outer handler)
\* the list returned is the accumulated list.
C22_AppendOnly ==
  /\ [](C22_PageOrder /\ (pc = "returned" => result = internships))
  /\ [][\/ internships' = internships
        \/ /\ Len(internships') = Len(internships) + 1
           /\ SubSeq(internships', 1, Len(internships)) = internships
           /\ pc = "for_jobs"]_vars

\* the first page gave two records, then get_job_elements raised on page 2;
\* the two records are returned
C22_Witness ==
  /\ pc = "returned"
  /\ ended = "exception"
  /\ failed["extract"] = "Other"
  /\ page_number = 2
  /\ Len(internships) = 2
  /\ internships[1].page = 1 /\ internships[2].page = 1
  /\ result = internships

\* ----------------------------------------------------- sheet name sanitizer
\* Names are sequences of one-character strings.

MaxSheetName == 31

\* the character class [\\/*?:\[\]] of the first re.sub
InvalidChars == {"\\", "/", "*", "?", ":", "[", "]"}

IsValidChar(c) == c \notin InvalidChars

RemoveInvalid(s) == SelectSeq(s, IsValidChar)

\* re.sub(r'\s+', ' ', s): every maximal run of whitespace becomes one space
RECURSIVE CollapseWs(_)
CollapseWs(s) ==
  IF s = <<>> THEN <<>>
  ELSE IF Head(s) \notin Whitespace THEN <<Head(s)>> \o CollapseWs(Tail(s))
  ELSE IF Len(s) > 1 /\ s[2] \in Whitespace THEN CollapseWs(Tail(s))
  ELSE <<" ">> \o CollapseWs(Tail(s))

\* the slice s[:n] for n >= 0
Take(s, n) == SubSeq(s, 1, IF Len(s) < n THEN Len(s) ELSE n)

Digit(d) == CASE d = 0 -> "0" [] d = 1 -> "1" [] d = 2 -> "2" [] d = 3 -> "3"
              [] d = 4 -> "4" [] d = 5 -> "5" [] d = 6 -> "6" [] d = 7 -> "7"
              [] d = 8 -> "8" [] d = 9 -> "9"

\* str(n) for n >= 0
RECURSIVE Decimal(_)
Decimal(n) ==
  IF n < 10 THEN <<Digit(n)>> ELSE Decimal(n \div 10) \o <<Digit(n % 10)>>

\* f"_{counter}"
Suffix(counter) == <<"_">> \o Decimal(counter)

Candidate_NoRetruncate(original, counter) == original \o Suffix(counter)

Candidate_TruncateAfter(original, counter) ==
  Take(original \o Suffix(counter), MaxSheetName)

\* the body of the while loop: the candidate for this counter
Candidate(original, counter) ==
  IF Len(original) + Len(Suffix(counter)) > MaxSheetName
    THEN Take(original, MaxSheetName - Len(Suffix(counter))) \o Suffix(counter)
    ELSE original \o Suffix(counter)

\* while sanitized in existing_names
RECURSIVE Uniquify(_, _, _, _)
Uniquify(sanitized, original, counter, existing) ==
  IF sanitized \in existing
    THEN Uniquify(Candidate(original, counter), original, counter + 1, existing)
    ELSE sanitized

\* the value of counter when the while loop exits; the loop has then built
\* counter - 1 candidates
RECURSIVE LoopCounter(_, _, _, _)
LoopCounter(sanitized, original, counter, existing) ==
  IF sanitized \in existing
    THEN LoopCounter(Candidate(original, counter), original, counter + 1,
                     existing)
    ELSE counter

\* the three statements before the loop
Clean(name) == Take(Strip(CollapseWs(RemoveInvalid(name))), MaxSheetName)

sanitize_sheet_name_NoCheck(name, existing) == Clean(name)

\* the value returned by sanitize_sheet_name(name, existing_names)
sanitize_sheet_name(name, existing) ==
  Uniquify(Clean(name), Clean(name), 1, existing)

Rep(c, n) == [i \in 1..n |-> c]

\* input names: short ones that differ only in removed characters or in
\* whitespace, one that equals a suffixed candidate, one that cleans to the
\* empty name, and long ones around the 31 character limit
ShortNames ==
  { <<"a", "b">>,
    <<"a", "/", "b">>,
    <<" ", "a", " ", "\t", "b", " ">>,
    <<"a", " ", ":", " ", "b">>,
    <<"a", "b", "_", "1">>,
    <<"[", "]">> }

RepeatNames == { Rep("a", 31), Rep("a", 31) \o <<"b">> }

\* a name of 31 characters that ends in the first suffix: its candidate for
\* counter 1 is the name itself
SuffixedName == Rep("a", 29) \o <<"_", "1">>

LongNames ==
  RepeatNames \cup { Rep("a", 29), Rep("a", 30), Rep("a", 30) \o <<" ", "b">>,
                     SuffixedName }

SanNames == ShortNames \cup LongNames

MaxCalls == 3     \* calls on one registry with names drawn from SanNames
MaxRepeat == 11   \* calls on one registry with names drawn from RepeatNames

InitSan ==
  /\ IdleSan
  /\ IdleScrape
  /\ IdleGeo
  /\ IdleSave

\* one call sanitize_sheet_name(name, existing_names)
SanitizeCall ==
  \E name \in SanNames :
    /\ \/ Len(inputs) < MaxCalls
       \/ /\ Len(inputs) < MaxRepeat
          /\ name \in RepeatNames
          /\ \A i \in 1..Len(inputs) : inputs[i] \in RepeatNames
    /\ LET r == sanitize_sheet_name(name, existing_names) IN
         /\ existing_names' = existing_names \cup {r}
         /\ returned' = Append(returned, r)
    /\ inputs' = Append(inputs, name)
    /\ UNCHANGED <<scrapeVars, geoVars, saveVars>>

NextSan == SanitizeCall

SpecSan == InitSan /\ [][NextSan]_vars

\* ---------------------------------------------- claims: sheet name sanitizer

\* C2: over any sequence of calls sharing one registry the names returned are
\* pairwise distinct, and each is in the registry after its call.
C2_ReturnedNamesDistinct ==
  /\ \A i, j \in 1..Len(returned) : i # j => returned[i] # returned[j]
  /\ \A i \in 1..Len(returned) : returned[i] \in existing_names

\* a repeated name, a name differing only in a removed character, and a name
\* equal to the suffixed candidate already handed out
C2_Witness ==
  /\ inputs = << <<"a", "b">>, <<"a", "/", "b">>, <<"a", "b", "_", "1">> >>
  /\ returned = << <<"a", "b">>, <<"a", "b", "_", "1">>,
                   <<"a", "b", "_", "1", "_", "1">> >>

\* C3: every name returned, suffixed or not, has at most 31 characters, none
\* of the characters \ / * ? : [ ] and no two adjacent spaces.
C3_ReturnedNamesValid ==
  \A i \in 1..Len(returned) :
    /\ Len(returned[i]) <= 31
    /\ \A k \in 1..Len(returned[i]) :
         returned[i][k] \notin {"\\", "/", "*", "?", ":", "[", "]"}
    /\ \A k \in 1..(Len(returned[i]) - 1) :
         ~(returned[i][k] = " " /\ returned[i][k + 1] = " ")

\* a name whose base was cut to 28 characters to make room for "_10"
C3_Witness ==
  \E i \in 1..Len(returned) :
    /\ Len(inputs[i]) > 31
    /\ returned[i] = Rep("a", 28) \o <<"_", "1", "0">>

\* the registry the i-th call was given: the names returned before it
RegistryBefore(i) == { returned[j] : j \in 1..(i - 1) }

\* the number of candidates the while loop of the i-th call built
CandidatesBuilt(i) ==
  LET original == Clean(inputs[i]) IN
    LoopCounter(original, original, 1, RegistryBefore(i)) - 1

\* C23: the collision loop of the latest call terminated with a name that is
\* not in the registry it was given, after building at most |registry| + 1
\* candidates; and for the name it was passed, the candidates of the
\* counters from 1 to the size of the present registry plus one are pairwise
\* different names, whether or not the base was cut to make room for the
\* suffix. (Every earlier call is the latest call of an earlier state.)
C23_CollisionLoopTerminates ==
  Len(returned) > 0 =>
    LET i == Len(returned)
        original == Clean(inputs[i])
        counters == 1..(Cardinality(existing_names) + 1)
    IN /\ returned[i] \notin RegistryBefore(i)
       /\ LoopCounter(original, original, 1, RegistryBefore(i)) - 1
            <= Cardinality(RegistryBefore(i)) + 1
       /\ Cardinality({ Candidate(original, c) : c \in counters })
            = Cardinality(counters)

\* a call that needed all |registry| + 1 candidates, each built from a cut
\* base: the first candidate of a 31 character name ending in "_1" is the
\* name itself
C23_Witness ==
  \E i \in 1..Len(returned) :
    /\ RegistryBefore(i) # {}
    /\ Len(Clean(inputs[i])) = MaxSheetName
    /\ CandidatesBuilt(i) = Cardinality(RegistryBefore(i)) + 1
    /\ returned[i] = Rep("a", 29) \o <<"_", "2">>

\* --------------------------------------------------------- geocode resolver
MaxWorkers == 5

Geneva  == <<"G", "e", "n", "e", "v", "a">>
NewYork == <<"N", "e", "w", " ", "Y", "o", "r", "k">>
Vienna  == <<"V", "i", "e", "n", "n", "a">>

CityNames == {Geneva, NewYork, Vienna}

Switzerland  == <<"S", "w", "i", "t", "z", "e", "r", "l", "a", "n", "d">>
UnitedStates == <<"U", "n", "i", "t", "e", "d", " ", "S", "t", "a", "t", "e", "s">>
Austria      == <<"A", "u", "s", "t", "r", "i", "a">>

\* pycountry.countries.lookup: the names and codes it resolves, with the
\* name attribute of the country found (any other value raises LookupError)
CountryTable_Chained ==
  { [key |-> Switzerland,  name |-> Switzerland],
    [key |-> <<"C", "H">>,  name |-> Switzerland],
    [key |-> UnitedStates, name |-> <<"U", "S">>],
    [key |-> <<"U", "S", "A">>, name |-> UnitedStates],
    [key |-> Austria,      name |-> Austria] }

CountryTable ==
  { [key |-> Switzerland,  name |-> Switzerland],
    [key |-> <<"C", "H">>,  name |-> Switzerland],
    [key |-> UnitedStates, name |-> UnitedStates],
    [key |-> <<"U", "S", "A">>, name |-> UnitedStates],
    [key |-> Austria,      name |-> Austria] }

get_standard_country_name(country_name) ==
  IF \E e \in CountryTable : e.key = country_name
    THEN (CHOOSE e \in CountryTable : e.key = country_name).name
    ELSE country_name

\* addresses the geocoding service can return for a city
AddressesOf(city) ==
  IF city = Geneva
    THEN { <<"G", "e", "n", "e", "v", "a", ",", " ", "S", "w", "i", "t", "z", "e", "r", "l", "a", "n", "d">>,
           <<"G", "e", "n", "e", "v", "a", ",", " ", "S", "c", "h", "w", "e", "i", "z", "/", "S", "u", "i", "s", "s", "e">> }
  ELSE IF city = NewYork
    THEN { <<"N", "e", "w", " ", "Y", "o", "r", "k", ",", " ", "U", "S", "A">> }
  ELSE IF city = Vienna
    THEN { <<"V", "i", "e", "n", "n", "a", ",", " ", "A", "u", "s", "t", "r", "i", "a">> }
  ELSE {}

\* the outcomes of geolocator.geocode(city, ...): an address, no location,
\* GeocoderTimedOut, GeocoderServiceError, or any other exception
OutcomesOf(city) ==
  IF city \in CityNames
    THEN { [kind |-> k, address |-> <<>>] :
             k \in {"no_result", "timeout", "service", "other"} }
         \cup { [kind |-> "address", address |-> a] : a \in AddressesOf(city) }
    ELSE \* a city the model gives no address: the service finds nothing
         { [kind |-> "no_result", address |-> <<>>] }

\* address.split(",")[-1]
RECURSIVE LastField(_)
LastField(s) ==
  IF \E i \in 1..Len(s) : s[i] = ","
    THEN LastField(Tail(s))
    ELSE s

\* except clause of geocode_city
GeocodeCityCaught == {"timeout", "service"}

\* what the task geocode_city(city) leaves in its future
geocode_city(city, outcome) ==
  IF outcome.kind = "address" /\ outcome.address # <<>>
    THEN [raised |-> FALSE, city |-> city,
          country |-> get_standard_country_name(Strip(LastField(outcome.address)))]
  ELSE IF outcome.kind \in {"address", "no_result"}
    THEN [raised |-> FALSE, city |-> city, country |-> Unknown]
  ELSE IF outcome.kind \in GeocodeCityCaught
    THEN [raised |-> FALSE, city |-> city, country |-> Unknown]
  ELSE [raised |-> TRUE, city |-> city, country |-> <<>>]

CollectorCatches_Nothing(res) == FALSE

\* `except Exception` around future.result()
CollectorCatches(res) == res.raised

DictSet_Rebind(d, k, v) == [x \in {k} |-> v]

\* d[k] = v on a dict
DictSet(d, k, v) ==
  [x \in DOMAIN d \cup {k} |-> IF x = k THEN v ELSE d[x]]

MaxCities == 2   \* distinct cities passed to one geocode_cities call

InitGeo ==
  /\ gpc = "submit"
  /\ cities \in {S \in SUBSET CityNames : Cardinality(S) <= MaxCities}
  /\ future = [c \in cities |-> [state |-> "new", res |-> NoResult]]
  /\ work_queue = <<>>
  /\ city_country_dict = <<>>
  /\ lookup = [c \in cities |-> NoLookup]
  /\ first_done = <<>>
  /\ submits = [c \in cities |-> 0]
  /\ IdleScrape
  /\ IdleSan
  /\ IdleSave

InFlight == {c \in cities : future[c].state = "running"}

\* executor.submit(geocode_city, city) for the next city of the comprehension
GeoSubmit ==
  /\ gpc = "submit"
  /\ \E c \in cities :
       /\ future[c].state = "new"
       /\ future' = [future EXCEPT ![c].state = "pending"]
       /\ work_queue' = Append(work_queue, c)
       /\ submits' = [submits EXCEPT ![c] = @ + 1]
  /\ UNCHANGED <<gpc, cities, city_country_dict, lookup,
                 first_done>>

\* the comprehension is exhausted: as_completed(future_to_city) starts
GeoAllSubmitted ==
  /\ gpc = "submit"
  /\ \A c \in cities : future[c].state # "new"
  /\ gpc' = "collect"
  /\ UNCHANGED <<cities, future, work_queue, city_country_dict, lookup,
                 first_done, submits>>

CanStart_Unbounded == TRUE

\* ThreadPoolExecutor(max_workers=5): a task starts only on a free worker
CanStart == Cardinality(InFlight) < MaxWorkers

\* a free worker thread takes the task at the head of the queue
WorkerTake ==
  /\ work_queue # <<>>
  /\ CanStart
  /\ future' = [future EXCEPT ![Head(work_queue)].state = "running"]
  /\ work_queue' = Tail(work_queue)
  /\ UNCHANGED <<gpc, cities, city_country_dict, lookup,
                 first_done, submits>>

\* a worker runs geocode_city(city) to its end
WorkerRun ==
  /\ \E c \in InFlight :
       \E o \in OutcomesOf(c) :
         /\ future' = [future EXCEPT ![c] = [state |-> "done",
                                             res |-> geocode_city(c, o)]]
         /\ lookup' = [lookup EXCEPT ![c] = o]
         /\ first_done' = IF first_done = <<>> /\ spc = "idle"
                            THEN c ELSE first_done
  /\ UNCHANGED <<gpc, cities, work_queue, city_country_dict, submits>>

\* one iteration of `for future in as_completed(...)`
GeoCollect ==
  /\ gpc = "collect"
  /\ \E c \in cities :
       /\ future[c].state = "done"
       /\ future' = [future EXCEPT ![c].state = "collected"]
       /\ LET res == future[c].res IN
            IF ~res.raised
              THEN /\ city_country_dict' =
                        DictSet(city_country_dict, res.city, res.country)
                   /\ UNCHANGED gpc
            ELSE IF CollectorCatches(res)
              THEN /\ city_country_dict' = DictSet(city_country_dict, c, Unknown)
                   /\ UNCHANGED gpc
            ELSE /\ gpc' = "raised"
                 /\ UNCHANGED city_country_dict
  /\ UNCHANGED <<cities, work_queue, lookup,
                 first_done, submits>>

\* every future has been yielded; the with block shuts the executor down
GeoReturn ==
  /\ gpc = "collect"
  /\ \A c \in cities : future[c].state = "collected"
  /\ gpc' = "returned"
  /\ UNCHANGED <<cities, future, work_queue, city_country_dict, lookup,
                 first_done, submits>>

GeoStep ==
  \/ GeoSubmit
  \/ GeoAllSubmitted
  \/ WorkerTake
  \/ WorkerRun
  \/ GeoCollect
  \/ GeoReturn

NextGeo ==
  \/ GeoSubmit /\ UNCHANGED <<scrapeVars, sanVars, saveVars>>
  \/ GeoAllSubmitted /\ UNCHANGED <<scrapeVars, sanVars, saveVars>>
  \/ WorkerTake /\ UNCHANGED <<scrapeVars, sanVars, saveVars>>
  \/ WorkerRun /\ UNCHANGED <<scrapeVars, sanVars, saveVars>>
  \/ GeoCollect /\ UNCHANGED <<scrapeVars, sanVars, saveVars>>
  \/ GeoReturn /\ UNCHANGED <<scrapeVars, sanVars, saveVars>>

SpecGeo == InitGeo /\ [][NextGeo]_vars

\* --------------------------------------------------- claims: geocode resolver

\* C5: geocode_cities never raises; when it has returned, the keys of the
\* mapping are exactly the input cities, a city whose lookup timed out, met a
\* service error, raised anything else or found nothing maps to "Unknown",
\* and every other city maps to the country of its own address.
C5_GeocodeNeverRaises ==
  /\ gpc # "raised"
  /\ gpc = "returned" =>
       /\ DOMAIN city_country_dict = cities
       /\ \A c \in cities :
            IF lookup[c].kind = "address"
              THEN city_country_dict[c] =
                     get_standard_country_name(Strip(LastField(lookup[c].address)))
              ELSE /\ lookup[c].kind \in {"no_result", "timeout", "service", "other"}
                   /\ city_country_dict[c] = <<"U", "n", "k", "n", "o", "w", "n">>

\* one city raised an exception geocode_city does not catch, the other one
\* was resolved
C5_Witness ==
  /\ gpc = "returned"
  /\ cities = {Geneva, NewYork}
  /\ lookup[Geneva].kind = "other"
  /\ city_country_dict[Geneva] = <<"U", "n", "k", "n", "o", "w", "n">>
  /\ city_country_dict[NewYork] = UnitedStates

\* the empty set gives the empty mapping
C5_EmptyWitness ==
  /\ gpc = "returned"
  /\ cities = {}
  /\ city_country_dict = <<>>

\* the country geocode_cities maps a city to, given what its lookup did
CountryFor(c) ==
  IF geocode_city(c, lookup[c]).raised
    THEN Unknown
    ELSE geocode_city(c, lookup[c]).country

\* the cities whose entry differs between two mappings
ChangedKeys(d, e) ==
  {c \in DOMAIN d \cup DOMAIN e :
     ~(c \in DOMAIN d /\ c \in DOMAIN e /\ d[c] = e[c])}

\* C20: the mapping geocode_cities returns depends only on what each lookup
\* did, not on the order in which the lookups ended; and the mapping is
\* written only by the collecting loop, one key at a time, for a future whose
\* task has ended, never by a step of a worker.
C20_OrderIndependent ==
  /\ [](gpc = "returned" =>
          city_country_dict = [c \in cities |-> CountryFor(c)])
  /\ [][city_country_dict' # city_country_dict =>
          /\ gpc = "collect"
          /\ lookup' = lookup
          /\ first_done' = first_done
          /\ \E c \in cities :
               /\ future[c].state = "done"
               /\ future'[c].state = "collected"
               /\ ChangedKeys(city_country_dict, city_country_dict') = {c}]_vars

\* the lookup of New York ended before the lookup of Geneva, which timed out;
\* a run with the same outcomes in which Geneva ends first is reachable as well
C20_Witness ==
  /\ gpc = "returned"
  /\ cities = {Geneva, NewYork}
  /\ first_done = NewYork
  /\ lookup[Geneva].kind = "timeout"
  /\ lookup[NewYork].kind = "address"
  /\ city_country_dict[Geneva] = Unknown
  /\ city_country_dict[NewYork] = UnitedStates

\* ---------------------------------------------------------- workbook writer
\* A record is a function from field names to values; the Job ID is a string,
\* Duty Station, City and Country are sequences of characters, and the fields
\* the writer only copies are left empty.

\* dict.get(key, default)
Get(item, key, default) == IF key \in DOMAIN item THEN item[key] ELSE default

\* item[key] = value
Put(item, key, value) ==
  [k \in DOMAIN item \cup {key} |-> IF k = key THEN value ELSE item[k]]

JobIds == {"12345", "67890"}

GenevaStation  == <<"G", "e", "n", "e", "v", "a", ",", " ", "S", "w", "i", "t", "z", "e", "r", "l", "a", "n", "d">>
NewYorkStation == <<"N", "e", "w", " ", "Y", "o", "r", "k", ",", " ", "U", "n", "i", "t", "e", "d", " ", "S", "t", "a", "t", "e", "s">>

MkRecord(id, duty, city) ==
  ("Title" :> "") @@ ("Job ID" :> id) @@ ("Job Network" :> "")
  @@ ("Job Family" :> "") @@ ("Category and Level" :> "")
  @@ ("Duty Station" :> duty) @@ ("City" :> city)
  @@ ("Department/Office" :> "") @@ ("Date Posted" :> "")
  @@ ("Deadline" :> "") @@ ("Job Description Link" :> "")

\* a Duty Station without a comma, and one with a space before its comma
ViennaStation == Vienna
SpacedStation == <<"G", "e", "n", "e", "v", "a", " ", ",", " ", "S", "w", "i", "t", "z", "e", "r", "l", "a", "n", "d">>

\* s.split(",")[0]
FirstField(s) ==
  IF \E i \in 1..Len(s) : s[i] = ","
    THEN SubSeq(s, 1, (CHOOSE i \in 1..Len(s) :
                         s[i] = "," /\ \A j \in 1..(i - 1) : s[j] # ",") - 1)
    ELSE s

CityOf_NoStrip(duty_station) == FirstField(duty_station)

\* the City that extract_job_details derives from the Duty Station
CityOf(duty_station) ==
  IF \E i \in 1..Len(duty_station) : duty_station[i] = ","
    THEN Strip(FirstField(duty_station))
    ELSE duty_station

\* records get_internship_data can hand to save_to_excel
InputRecords ==
  { MkRecord(id, GenevaStation, CityOf(GenevaStation)) : id \in JobIds }
  \cup { MkRecord("67890", NewYorkStation, CityOf(NewYorkStation)),
         MkRecord("12345", ViennaStation, CityOf(ViennaStation)),
         MkRecord("67890", SpacedStation, CityOf(SpacedStation)) }

MaxData == 2   \* records passed to save_to_excel

SeqsUpTo(S, n) == UNION { [1..k -> S] : k \in 0..n }

\* contents of the applied-internships file: absent, without a "Job ID"
\* column, or with the given identifiers in that column
AppliedFiles ==
  { [kind |-> "missing", ids |-> {}], [kind |-> "no_column", ids |-> {}] }
  \cup { [kind |-> "ok", ids |-> S] : S \in SUBSET JobIds }

load_applied_job_ids(f) == IF f.kind = "ok" THEN f.ids ELSE {}

Excluded_Never(job_id, applied) == FALSE

\* `if job_id in applied_job_ids: continue`
Excluded(job_id, applied) == job_id \in applied

Enrich_NoLookup(item, dict) ==
  Put(item, "Country", get_standard_country_name(Unknown))

\* the body of the filter loop for one item that is kept
Enrich(item, dict) ==
  LET city == Get(item, "City", Unknown)
      country == IF city \in DOMAIN dict THEN dict[city] ELSE Unknown
  IN Put(item, "Country", get_standard_country_name(country))

\* the filter loop over data
RECURSIVE FilterData(_, _, _)
FilterData(items, applied, dict) ==
  IF items = <<>> THEN <<>>
  ELSE IF Excluded(Get(Head(items), "Job ID", ""), applied)
    THEN FilterData(Tail(items), applied, dict)
    ELSE <<Enrich(Head(items), dict)>> \o FilterData(Tail(items), applied, dict)

AddToCountry_Prepend(cd, item) ==
  LET country == Get(item, "Country", Unknown) IN
  IF \E i \in 1..Len(cd) : cd[i].country = country
    THEN [i \in 1..Len(cd) |->
            IF cd[i].country = country
              THEN [cd[i] EXCEPT !.jobs = <<item>> \o @] ELSE cd[i]]
    ELSE Append(cd, [country |-> country, jobs |-> <<item>>])

\* country_dict[country].append(item), creating the entry when it is new
AddToCountry(cd, item) ==
  LET country == Get(item, "Country", Unknown) IN
  IF \E i \in 1..Len(cd) : cd[i].country = country
    THEN [i \in 1..Len(cd) |->
            IF cd[i].country = country
              THEN [cd[i] EXCEPT !.jobs = Append(@, item)] ELSE cd[i]]
    ELSE Append(cd, [country |-> country, jobs |-> <<item>>])

\* the loop that organizes filtered_data by country
RECURSIVE Partition(_, _)
Partition(cd, items) ==
  IF items = <<>> THEN cd
  ELSE Partition(AddToCountry(cd, Head(items)), Tail(items))

Headers ==
  <<"Title", "Job ID", "Job Network", "Job Family", "Category and Level",
    "Duty Station", "City", "Country", "Department/Office", "Date Posted",
    "Deadline", "Job Description Link">>

\* the row appended for one job
RowOf(job) ==
  <<Get(job, "Title", ""), Get(job, "Job ID", ""), Get(job, "Job Network", ""),
    Get(job, "Job Family", ""), Get(job, "Category and Level", ""),
    Get(job, "Duty Station", ""), Get(job, "City", ""),
    Get(job, "Country", ""), Get(job, "Department/Office", ""),
    Get(job, "Date Posted", ""), Get(job, "Deadline", ""),
    Get(job, "Job Description Link", "")>>

NewWorkbook_Loaded == PriorFile

\* openpyxl.Workbook(): one empty sheet with the default title
NewWorkbook == <<[title |-> <<"S", "h", "e", "e", "t">>, rows |-> <<>>]>>

InitSave ==
  /\ spc = "start"
  /\ data \in SeqsUpTo(InputRecords, MaxData)
  /\ applied_file \in AppliedFiles
  /\ applied_job_ids = {}
  /\ filtered_data = <<>>
  /\ country_dict = <<>>
  /\ sheet_idx = 0
  /\ workbook = <<>>
  /\ file = PriorFile
  /\ IdleGeo
  /\ IdleSan
  /\ IdleScrape

\* `if not data: return`, else the unique cities and the call geocode_cities
SaveStart ==
  /\ spc = "start"
  /\ IF data = <<>>
       THEN /\ spc' = "returned"
            /\ UNCHANGED geoVars
       ELSE /\ spc' = "geocode"
            /\ gpc' = "submit"
            /\ cities' = {Get(data[i], "City", Unknown) : i \in 1..Len(data)}
            /\ future' = [c \in cities' |-> [state |-> "new", res |-> NoResult]]
            /\ lookup' = [c \in cities' |-> NoLookup]
            /\ first_done' = <<>>
            /\ submits' = [c \in cities' |-> 0]
            /\ work_queue' = <<>>
            /\ city_country_dict' = <<>>
  /\ UNCHANGED <<data, applied_file, applied_job_ids, filtered_data,
                 country_dict, sheet_idx, workbook, file, sanVars>>

\* the steps of geocode_cities, run while save_to_excel waits for its result
SaveGeocode ==
  /\ spc = "geocode"
  /\ GeoStep
  /\ UNCHANGED <<saveVars, sanVars>>

\* applied_job_ids = load_applied_job_ids()
SaveLoadApplied ==
  /\ spc = "geocode"
  /\ gpc = "returned"
  /\ applied_job_ids' = load_applied_job_ids(applied_file)
  /\ spc' = "filter"
  /\ UNCHANGED <<data, applied_file, filtered_data, country_dict, sheet_idx,
                 workbook, file, geoVars, sanVars>>

\* the filter loop (the items kept are the dicts of data, updated in place),
\* then the new workbook, the partition by country and the empty set of sheet
\* names
SaveFilter ==
  /\ spc = "filter"
  /\ filtered_data' = FilterData(data, applied_job_ids, city_country_dict)
  /\ data' = [i \in 1..Len(data) |->
                IF Excluded(Get(data[i], "Job ID", ""), applied_job_ids)
                  THEN data[i] ELSE Enrich(data[i], city_country_dict)]
  /\ workbook' = NewWorkbook
  /\ country_dict' = Partition(<<>>, filtered_data')
  /\ existing_names' = {}
  /\ sheet_idx' = 0
  /\ spc' = "sheets"
  /\ UNCHANGED <<applied_file, applied_job_ids, file, geoVars, inputs,
                 returned>>

\* one iteration of the loop over country_dict.items()
SaveSheet ==
  /\ spc = "sheets"
  /\ sheet_idx < Len(country_dict)
  /\ LET entry == country_dict[sheet_idx + 1]
         name  == sanitize_sheet_name(entry.country, existing_names)
         rows  == <<Headers>> \o [i \in 1..Len(entry.jobs) |-> RowOf(entry.jobs[i])]
         sheet == [title |-> name, rows |-> rows]
     IN /\ existing_names' = existing_names \cup {name}
        /\ workbook' = IF sheet_idx = 0
                         THEN [workbook EXCEPT ![1] = sheet]
                         ELSE Append(workbook, sheet)
  /\ sheet_idx' = sheet_idx + 1
  /\ UNCHANGED <<spc, data, applied_file, applied_job_ids, filtered_data,
                 country_dict, file, geoVars, inputs, returned>>

\* workbook.save(filename)
SaveWrite ==
  /\ spc = "sheets"
  /\ sheet_idx = Len(country_dict)
  /\ file' = workbook
  /\ spc' = "returned"
  /\ UNCHANGED <<data, applied_file, applied_job_ids, filtered_data,
                 country_dict, sheet_idx, workbook, geoVars, sanVars>>

NextSave ==
  \/ SaveStart /\ UNCHANGED scrapeVars
  \/ SaveGeocode /\ UNCHANGED scrapeVars
  \/ SaveLoadApplied /\ UNCHANGED scrapeVars
  \/ SaveFilter /\ UNCHANGED scrapeVars
  \/ SaveSheet /\ UNCHANGED scrapeVars
  \/ SaveWrite /\ UNCHANGED scrapeVars

SpecSave == InitSave /\ [][NextSave]_vars

\* ---------------------------------------------------- claims: workbook writer

\* number of data rows with Job ID `id` in all sheets of workbook `wb`
RECURSIVE RowsWithId(_, _)
RowsWithId(wb, id) ==
  IF wb = <<>> THEN 0
  ELSE Cardinality({k \in 2..Len(Head(wb).rows) : Head(wb).rows[k][2] = id})
       + RowsWithId(Tail(wb), id)

\* C1: when save_to_excel has written the workbook, a record whose Job ID is
\* in the applied set has no row in any sheet, and every record whose Job ID
\* is not in the applied set has its row in the workbook.
C1_AppliedRecordsFiltered ==
  (spc = "returned" /\ data # <<>>) =>
    \A id \in JobIds :
      RowsWithId(file, id) =
        IF id \in applied_job_ids
          THEN 0
          ELSE Cardinality({i \in 1..Len(data) : data[i]["Job ID"] = id})

C1_Witness ==
  /\ spc = "returned"
  /\ Len(data) = 2
  /\ data[1]["Job ID"] = "12345"
  /\ data[2]["Job ID"] = "67890"
  /\ applied_file = [kind |-> "ok", ids |-> {"67890"}]
  /\ applied_job_ids = {"67890"}
  /\ RowsWithId(file, "12345") = 1
  /\ RowsWithId(file, "67890") = 0

\* the countries of the records that remain after the applied-set filter
FilteredCountries ==
  {Get(filtered_data[i], "Country", Unknown) : i \in 1..Len(filtered_data)}

\* C11: for every non-empty input, the workbook save_to_excel has saved holds
\* exactly one sheet per distinct country among the records left by the
\* applied-set filter (none when the filter removed every record), and every
\* sheet begins with the 12-column header row.
C11_OneSheetPerCountry ==
  (spc = "returned" /\ data # <<>>) =>
    /\ Len(file) = Cardinality(FilteredCountries)
    /\ \A s \in 1..Len(file) :
         /\ Len(file[s].rows) >= 1
         /\ file[s].rows[1] = Headers
         /\ Len(file[s].rows[1]) = 12

\* the records of data that the applied-set filter keeps, in extraction order
KeptRecords ==
  SelectSeq(data, LAMBDA r : Get(r, "Job ID", "") \notin applied_job_ids)

\* the kept records of one country, in extraction order
KeptOf(country) ==
  SelectSeq(KeptRecords, LAMBDA r : Get(r, "Country", Unknown) = country)

\* position in the kept sequence of the first record of a country
FirstKept(country) ==
  CHOOSE i \in 1..Len(KeptRecords) :
    /\ Get(KeptRecords[i], "Country", Unknown) = country
    /\ \A j \in 1..(i - 1) : Get(KeptRecords[j], "Country", Unknown) # country

\* the sheets of the saved file that hold at least one data row
DataSheets == {s \in 1..Len(file) : Len(file[s].rows) >= 2}

\* the country of a sheet, read from the Country column of its first data row
SheetCountry(s) == file[s].rows[2][8]

\* C12: the saved workbook is a stable partition of the kept records: every
\* country of a kept record has a sheet, the data rows of a sheet are exactly
\* the kept records of its country in extraction order, and the sheets come in
\* the order in which their countries first occur among the kept records.
C12_StablePartition ==
  (spc = "returned" /\ data # <<>>) =>
    /\ \A i \in 1..Len(KeptRecords) :
         \E s \in DataSheets :
           SheetCountry(s) = Get(KeptRecords[i], "Country", Unknown)
    /\ \A s \in DataSheets :
         LET kept == KeptOf(SheetCountry(s)) IN
           /\ Len(file[s].rows) = Len(kept) + 1
           /\ \A k \in 1..Len(kept) : file[s].rows[k + 1] = RowOf(kept[k])
    /\ \A s, t \in DataSheets :
         s < t => FirstKept(SheetCountry(s)) < FirstKept(SheetCountry(t))

\* two records of one country are kept, the later Job ID first, and their rows
\* follow the header in that order
C12_Witness ==
  /\ spc = "returned"
  /\ Len(data) = 2
  /\ data[1]["Job ID"] = "67890"
  /\ data[2]["Job ID"] = "12345"
  /\ applied_job_ids = {}
  /\ Len(file) = 1
  /\ Len(file[1].rows) = 3
  /\ file[1].rows[2][2] = "67890"
  /\ file[1].rows[3][2] = "12345"

\* the scenario of C15: two records, the second one applied
C15_Scenario ==
  /\ Len(data) = 2
  /\ data[1]["Job ID"] = "12345"
  /\ data[1]["Duty Station"] = GenevaStation
  /\ data[2]["Job ID"] = "67890"
  /\ data[2]["Duty Station"] = NewYorkStation
  /\ applied_file = [kind |-> "ok", ids |-> {"67890"}]

\* the saved workbook has exactly one sheet, with the header and exactly one
\* data row, the one of Job ID "12345"
C15_OneSheetOneRow ==
  /\ Len(file) = 1
  /\ Len(file[1].rows) = 2
  /\ file[1].rows[1] = Headers
  /\ file[1].rows[2][2] = "12345"

\* C15: records "12345" (Geneva, Switzerland) and "67890" (New York, United
\* States) with "67890" applied give a workbook of exactly one sheet, named
\* Switzerland, holding the header and the one data row of "12345".
C15_EndToEndSwitzerland ==
  (spc = "returned" /\ C15_Scenario) =>
    /\ C15_OneSheetOneRow
    /\ file[1].title = Switzerland

\* C15 (amended): the same input gives exactly one sheet with the header and
\* the one data row of "12345"; the sheet is named Switzerland exactly when
\* the lookup of the city Geneva returned an address whose last field is a
\* name of Switzerland, and Unknown whenever that lookup returned no location
\* or raised.
C15_EndToEndGeocoded ==
  (spc = "returned" /\ C15_Scenario) =>
    /\ C15_OneSheetOneRow
    /\ file[1].title = Switzerland
         <=> /\ lookup[Geneva].kind = "address"
             /\ \E e \in CountryTable :
                  /\ e.key = Strip(LastField(lookup[Geneva].address))
                  /\ e.name = Switzerland
    /\ lookup[Geneva].kind # "address" => file[1].title = Unknown

C15_Witness ==
  /\ spc = "returned"
  /\ C15_Scenario
  /\ lookup[Geneva].kind = "address"
  /\ C15_OneSheetOneRow
  /\ file[1].title = Switzerland
  /\ file[1].rows[2][8] = Switzerland

\* the strings get_standard_country_name is applied to: the keys and names of
\* the table, the last fields of the addresses of the service, and the sentinel
NormalizeInputs ==
  {e.key : e \in CountryTable} \cup {e.name : e \in CountryTable}
  \cup {Strip(LastField(a)) : a \in UNION {AddressesOf(c) : c \in CityNames}}
  \cup {Unknown}

\* normalize(normalize(x)) = normalize(x) for every such string
C16_FixedPoints ==
  \A x \in NormalizeInputs :
    get_standard_country_name(get_standard_country_name(x))
      = get_standard_country_name(x)

C17_CityFromDutyStation ==
  \A i \in 1..Len(data) :
    LET d == data[i]["Duty Station"]
        c == data[i]["City"]
        commas == {k \in 1..Len(d) : d[k] = ","}
    IN /\ commas # {} =>
            \E k \in commas :
              /\ \A j \in commas : k <= j
              /\ c = Strip(SubSeq(d, 1, k - 1))
       /\ commas = {} => c = d
       /\ d = GenevaStation => c = Geneva
       /\ d = ViennaStation => c = Vienna
       /\ spc \notin {"start", "main", "main_if"} =>
            /\ c \in cities
            /\ c \in DOMAIN lookup
            /\ commas = {} => d \in DOMAIN lookup
            /\ \A q \in DOMAIN lookup :
                 \E j \in 1..Len(data) : data[j]["City"] = q

\* a record of Vienna and one whose Duty Station has a space before the comma
\* were geocoded under the cities Vienna and Geneva
C17_Witness ==
  /\ spc = "returned"
  /\ Len(data) = 2
  /\ data[1]["Duty Station"] = ViennaStation
  /\ data[1]["City"] = Vienna
  /\ data[2]["Duty Station"] = SpacedStation
  /\ data[2]["City"] = Geneva
  /\ DOMAIN lookup = {Vienna, Geneva}
  /\ lookup[Vienna].kind = "address"
  /\ lookup[Geneva].kind = "address"

\* ------------------------------------------------------------------- main
\* main() calls get_internship_data and hands a non-empty result to
\* save_to_excel; the list returned by the scrape is any list of records.

InitMain ==
  /\ spc = "main"
  /\ data = <<>>
  /\ applied_file \in AppliedFiles
  /\ applied_job_ids = {}
  /\ filtered_data = <<>>
  /\ country_dict = <<>>
  /\ sheet_idx = 0
  /\ workbook = <<>>
  /\ file = PriorFile
  /\ IdleGeo
  /\ IdleSan
  /\ IdleScrape

\* internships = get_internship_data()
MainGet ==
  /\ spc = "main"
  /\ data' \in SeqsUpTo(InputRecords, MaxData)
  /\ spc' = "main_if"
  /\ UNCHANGED <<applied_file, applied_job_ids, filtered_data, country_dict,
                 sheet_idx, workbook, file, geoVars, sanVars>>

\* `if internships: save_to_excel(internships)`, else only the warning
MainBranch ==
  /\ spc = "main_if"
  /\ spc' = IF data # <<>> THEN "start" ELSE "main_done"
  /\ UNCHANGED <<data, applied_file, applied_job_ids, filtered_data,
                 country_dict, sheet_idx, workbook, file, geoVars, sanVars>>

\* save_to_excel has returned and main logs the completion
MainEnd ==
  /\ spc = "returned"
  /\ spc' = "main_done"
  /\ UNCHANGED <<data, applied_file, applied_job_ids, filtered_data,
                 country_dict, sheet_idx, workbook, file, geoVars, sanVars>>

NextMain ==
  \/ MainGet /\ UNCHANGED scrapeVars
  \/ MainBranch /\ UNCHANGED scrapeVars
  \/ MainEnd /\ UNCHANGED scrapeVars
  \/ SaveStart /\ UNCHANGED scrapeVars
  \/ SaveGeocode /\ UNCHANGED scrapeVars
  \/ SaveLoadApplied /\ UNCHANGED scrapeVars
  \/ SaveFilter /\ UNCHANGED scrapeVars
  \/ SaveSheet /\ UNCHANGED scrapeVars
  \/ SaveWrite /\ UNCHANGED scrapeVars

SpecMain == InitMain /\ [][NextMain]_vars

\* --------------------------------------------------------------- claims: main

\* the sheets of the file of a prior run
PriorSheets == {PriorFile[s] : s \in 1..Len(PriorFile)}

\* the destination file holds the workbook of this run and no sheet of the
\* prior run
Overwritten ==
  /\ workbook # <<>>
  /\ file = workbook
  /\ \A s \in 1..Len(file) : file[s] \notin PriorSheets

\* C13: after main completes, whatever the number of records harvested, the
\* destination file holds only the result of this run and nothing of a prior
\* run's content.
C13_EveryRunOverwrites ==
  spc = "main_done" => Overwritten

\* C13 (amended): after main completes a run that harvested at least one
\* record, the destination file holds only the workbook of this run; after a
\* run that harvested no record the file of the prior run is left as it was.
C13_NonEmptyRunOverwrites ==
  spc = "main_done" =>
    IF data # <<>> THEN Overwritten ELSE file = PriorFile

\* a run whose only record is filtered out still replaces the prior file
C13_Witness ==
  /\ spc = "main_done"
  /\ Len(data) = 1
  /\ filtered_data = <<>>
  /\ file = NewWorkbook
  /\ file # PriorFile

\* ------------------------------------------------------------ worker pool
\* save_to_excel called with more distinct cities than the pool has workers:
\* one record per city, and a last record that shares the city of the first.

MaxPool == 6   \* distinct cities among the records

PoolCities ==
  << <<"P", "a", "r", "i", "s">>, <<"R", "o", "m", "e">>,
     <<"O", "s", "l", "o">>, <<"B", "o", "n", "n">>,
     <<"L", "i", "m", "a">>, <<"C", "a", "i", "r", "o">>,
     <<"T", "o", "k", "y", "o">>, <<"B", "e", "r", "n">> >>

PoolData ==
  [i \in 1..(MaxPool + 1) |->
     LET duty == PoolCities[IF i <= MaxPool THEN i ELSE 1]
     IN MkRecord("12345", duty, CityOf(duty))]

InitPool ==
  /\ spc = "start"
  /\ data = PoolData
  /\ applied_file \in { [kind |-> "missing", ids |-> {}],
                        [kind |-> "ok", ids |-> {"67890"}] }
  /\ applied_job_ids = {}
  /\ filtered_data = <<>>
  /\ country_dict = <<>>
  /\ sheet_idx = 0
  /\ workbook = <<>>
  /\ file = PriorFile
  /\ IdleGeo
  /\ IdleSan
  /\ IdleScrape

SpecPool == InitPool /\ [][NextSave]_vars

\* ------------------------------------------------------ claims: worker pool

\* the futures whose task a worker is running
Running == {c \in DOMAIN future : future[c].state = "running"}

\* C21: during geocode_cities at most 5 lookups are in progress at any time;
\* every distinct city of the records is submitted exactly once, however many
\* records share it; and geocode_cities returns only after the lookup of
\* every submitted city has ended and been collected.
C21_PoolBounded ==
  /\ Cardinality(Running) <= 5
  /\ gpc # "idle" =>
       /\ DOMAIN submits = {data[i]["City"] : i \in 1..Len(data)}
       /\ \A c \in DOMAIN submits : submits[c] <= 1
       /\ gpc # "submit" => \A c \in DOMAIN submits : submits[c] = 1
  /\ gpc = "returned" =>
       \A c \in DOMAIN submits :
         /\ future[c].state = "collected"
         /\ lookup[c] # NoLookup
         /\ c \in DOMAIN city_country_dict

\* five lookups are running while the sixth city waits in the queue, two
\* records sharing one city
C21_Witness ==
  /\ Cardinality(Running) = 5
  /\ Len(work_queue) = 1
  /\ Cardinality(DOMAIN submits) = 6
  /\ Len(data) = 7
  /\ data[1]["City"] = data[7]["City"]
  /\ \A c \in DOMAIN submits : submits[c] = 1

====
